---- MODULE Spec2Model ----
(***************************************************************************)
(* Model of adafruit_floppy.py: the Floppy head-positioning controller and *)
(* the FloppyBlockDevice track cache / block device / format autodetector. *)
(*                                                                         *)
(* Every method is an operator on a flat record s holding the fields of    *)
(* the Floppy object, of the FloppyBlockDevice object, of the physical     *)
(* drive, and the observations of the running call.  A method that can     *)
(* meet a nondeterministic environment (index pulse, flux capture, MFM     *)
(* decode) yields the SET of its outcomes; a raised exception is the field *)
(* exc of the outcome, and sequencing stops at the first outcome with      *)
(* exc # NoExc, as Python's exception propagation does.                    *)
(***************************************************************************)
EXTENDS Integers, Sequences, FiniteSets, TLC

VARIABLES floppy,   \* the Floppy object: _track and its output lines
          drive,    \* the physical mechanism: head position, home sensor
          dev,      \* the FloppyBlockDevice object
          obs       \* what the last public call did (history, reset per call)

vars == <<floppy, drive, dev, obs>>

---------------------------------------------------------------------------
(* Bounds of the model *)

\* cylinders the mechanism can physically reach are 0..MaxPhys
MaxPhys == 3
\* seek targets tried by a caller of Floppy.track are -1..MaxTarget
MaxTarget == 4
\* max_sectors given to the FloppyBlockDevice constructor
MaxSectors == 2
\* readblocks is called with buffers of 1..MaxBlocks blocks
MaxBlocks == 2
\* formats given by callers have 1..MaxTracks tracks
MaxTracks == 2

---------------------------------------------------------------------------
(* Program constants *)

STEP_IN == 0
STEP_OUT == 1
\* range(4) in find_track0: forced inward steps
MoveOffSteps == 4
\* range(250) in find_track0: outward step budget
HomeTries == 250
\* range(5) in _mfm_readinto and in autodetect
ReadTries == 5
\* the timing hypotheses of _detect_diskformat_from_flux, in order
T1Hypotheses == <<1000, 2000, 833, 1667>>

\* Python's None for Floppy._track (never a legal track: seeks reject t < 0)
None == -1

NoExc == "none"
Track0NotFound == "RuntimeError: Could not reach track 0"
PositionLost == "RuntimeError: Drive lost position"
InvalidSeek == "ValueError: Invalid seek to negative track number"
IndexTimeout == "RuntimeError: Didn't find an index pulse"
CaptureError == "RuntimeError: flux capture"
ReadOnly == "OSError: Read-only filesystem"
OutOfRange == "OSError: Read past end of media"
SectorRead == "OSError: Failed to read sector"
FormatDetection == "OSError: Failed to detect floppy format"
UnboundLocal == "UnboundLocalError: diskformat"
ZeroDivision == "ZeroDivisionError"

Min(a, b) == IF a < b THEN a ELSE b
Max(a, b) == IF a > b THEN a ELSE b

Raise(s, e) == [s EXCEPT !.exc = e]

\* R ; F : run F on every outcome of R that did not raise
Bind(R, F(_)) == UNION { IF r.exc # NoExc THEN {r} ELSE F(r) : r \in R }

---------------------------------------------------------------------------
(* class Floppy *)

\* the properties are inversions of the active-low lines
selected(s) == ~s.select
spin(s) == ~s.motor
side_get(s) == IF s.side THEN 0 ELSE 1

\* the drive is ready for a seek, side-select or capture
ready(s) == selected(s) /\ spin(s)

\* _track0.value is low (False) when the head rests on cylinder 0, unless the
\* sensor of this mechanism is stuck
track0_value(s) == ~(s.phys = 0 /\ ~s.stuck)

\* Observation: a counter of the events of one call.  Unless the call is
\* watched in detail (obs.watch) it only tells "none" (0) from "some" (1).
Count(s, n) == IF s.watch THEN n + 1 ELSE 1

\* Observation: one run of step pulses appended to the pulse log of a watched
\* call (consecutive pulses in the same direction are one run)
LogPulses(s, p, dir, count) ==
    IF count = 0 \/ ~s.watch THEN p
    ELSE IF Len(p) > 0 /\ p[Len(p)].dir = dir
         THEN [p EXCEPT ![Len(p)].n = @ + count]
         ELSE Append(p, [dir |-> dir, n |-> count])

\* count pulses on the step line move the head by one cylinder each, the
\* way the direction line points, as far as the mechanism goes (s.limit is
\* its innermost cylinder)
step_pulses(s, count) ==
    [s EXCEPT !.phys = IF s.direction = STEP_IN THEN Min(@ + count, s.limit)
                       ELSE Max(@ - count, 0),
              !.pulses = LogPulses(s, @, s.direction, count)]

\* (variant: one pulse whatever the count)
do_step_mut(s, dir, count) == step_pulses([s EXCEPT !.direction = dir], Min(count, 1))
do_step(s, dir, count) == step_pulses([s EXCEPT !.direction = dir], count)

\* (variant: the home sensor is not compared with the position)
check_inpos_mut(s) == s
check_inpos(s) ==
    LET drive_says_track0 == ~track0_value(s)
        we_think_track0 == s.track = 0
    IN IF drive_says_track0 # we_think_track0 THEN Raise(s, PositionLost) ELSE s

\* one pass of the body of "for _ in range(250)": c.s is the state, c.done
\* tells that the loop has returned (or raised) already
home_body(c) ==
    IF c.done THEN c
    ELSE IF ~track0_value(c.s)
         THEN [s |-> check_inpos([c.s EXCEPT !.track = 0]), done |-> TRUE]
         ELSE [s |-> do_step(c.s, STEP_OUT, 1), done |-> FALSE]

\* n passes of the loop body; the passes are split in halves, and the second
\* half is skipped once the loop has returned, to keep the evaluation shallow
RECURSIVE home_passes(_, _)
home_passes(c, n) ==
    IF n = 0 \/ c.done THEN c
    ELSE IF n = 1 THEN home_body(c)
    ELSE LET h == n \div 2
             m == home_passes(c, h)
         IN IF m.done THEN m ELSE home_passes(m, n - h)

home_loop(s) ==
    LET c == home_passes([s |-> s, done |-> FALSE], HomeTries)
    IN IF c.done THEN c.s ELSE Raise(c.s, Track0NotFound)

\* (variant: no forced inward steps before homing)
move_off_mut(s, i) == s
RECURSIVE move_off(_, _)
move_off(s, i) ==
    IF i = MoveOffSteps THEN s ELSE move_off(do_step(s, STEP_IN, 1), i + 1)

find_track0(s) ==
    home_loop(move_off([s EXCEPT !.track = None, !.homings = Count(s, @)], 0))

\* the getter of Floppy.track: the position after _check_inpos
\* (variant: the getter returns the position unchecked)
track_get_mut(s) == s
track_get(s) == check_inpos(s)

\* the setter of Floppy.track
track_set(s, t) ==
    LET s0 == [s EXCEPT !.nseek = Count(s, @),
                        !.unready = IF ready(s) THEN @ ELSE @ \cup {"seek"}]
        s1 == IF s0.track = None THEN find_track0(s0) ELSE s0
    IN IF s1.exc # NoExc THEN s1
       ELSE IF t < 0 THEN Raise(s1, InvalidSeek)
       ELSE LET s2 == track_get(s1)
            IN IF s2.exc # NoExc THEN s2
               ELSE LET delta == t - s2.track
                        s3 == IF delta < 0 THEN do_step(s2, STEP_OUT, -delta)
                              ELSE IF delta > 0 THEN do_step(s2, STEP_IN, delta)
                              ELSE s2
                    IN check_inpos([s3 EXCEPT !.track = t])

\* the setter of Floppy.spin: on a drive with the fault "index" the index
\* pulse may fail to come within the 10 s
spin_set(s, motor_on) ==
    IF spin(s) = motor_on THEN {s}
    ELSE LET s1 == [s EXCEPT !.motor = ~motor_on]
             s2 == [s1 EXCEPT !.waited = s.watch]
         IN IF motor_on
            THEN {s2} \cup IF "index" \in s.faults THEN {Raise(s2, IndexTimeout)}
                           ELSE {}
            ELSE {s1}

selected_set(s, sel) == [s EXCEPT !.select = ~sel]

side_set(s, head) ==
    [s EXCEPT !.side = (head = 0),
              !.nside = Count(s, @),
              !.unready = IF ready(s) THEN @ ELSE @ \cup {"side"}]

\* floppyio.flux_readinto fills the buffer or, on a drive with the fault
\* "capture", may raise RuntimeError
flux_readinto(s) ==
    LET s1 == [s EXCEPT !.ncapture = Count(s, @),
                        !.unready = IF ready(s) THEN @ ELSE @ \cup {"capture"}]
    IN {s1} \cup IF "capture" \in s.faults
                 THEN {Raise([s1 EXCEPT !.nraised = Count(s, @)], CaptureError)}
                 ELSE {}

---------------------------------------------------------------------------
(* class FloppyBlockDevice *)

\* what a cache buffer holds for one sector: the (track, side) the head was
\* commanded to when the sector was decoded.  The bytes of a sector whose
\* validity is clear are never read by any call and are not modelled: Blank.
Blank == <<-1, -1>>
Tag(s) == <<s.track, side_get(s)>>

\* the two slots: "t0" is track0side0_cache / track0side0_validity and
\* "gen" is track_cache / track_validity
SlotData(s, slot) == IF slot = "t0" THEN s.track0side0_cache ELSE s.track_cache
SlotValid(s, slot) ==
    IF slot = "t0" THEN s.track0side0_validity ELSE s.track_validity
WithSlot(s, slot, data, valid) ==
    LET kept == [i \in DOMAIN data |-> IF i \in valid THEN data[i] ELSE Blank]
    IN IF slot = "t0"
       THEN [s EXCEPT !.track0side0_cache = kept, !.track0side0_validity = valid]
       ELSE [s EXCEPT !.track_cache = kept, !.track_validity = valid]

\* the getter of keep_selected
keep_selected(s) == s.keep_selected_

\* the setter of keep_selected
keep_selected_set(s, value) == spin_set(selected_set(s, value), value)

select_and_spin(s, value) ==
    IF keep_selected(s) THEN {s}
    ELSE spin_set(selected_set(s, value), value)

\* the sets of sectors one decoder call can find in a capture: all of them
\* or, on a drive with the fault "decode", only the first k, for any k
Decodable(s, room) ==
    IF "decode" \in s.faults
    THEN { { i \in room : i < k } : k \in 0..Cardinality(room) }
    ELSE {room}

\* floppyio.mfm_readinto on a track buffer: the sectors of D decode in this
\* call; sectors already valid are kept; the result is the number of valid
\* sectors.  The buffer holds at most max_sectors sectors.
mfm_decode(s, slot, clear_validity) ==
    LET room == 0..(Min(s.sectors, MaxSectors) - 1)
        old == IF clear_validity THEN {} ELSE SlotValid(s, slot)
        s0 == [s EXCEPT !.ndecode = Count(s, @)]
    IN { LET s1 == [s0 EXCEPT !.fresh = IF s.detail = "decode" THEN @ \cup (D \ old)
                                          ELSE @]
         IN
         [s |-> WithSlot(s1, slot,
                    [i \in DOMAIN SlotData(s, slot) |->
                        IF i \in D \ old THEN Tag(s) ELSE SlotData(s, slot)[i]],
                    old \cup D),
          n |-> Cardinality(old \cup D)] : D \in Decodable(s, room) }

\* Observation of one track decode, kept when the decode loops are watched
\* in detail (detail = "decode"): caps counts its flux captures, late tells
\* that a capture was issued after a decoder call had reported every sector,
\* first is the reset flag of its first decoder call, refined tells that a
\* later decoder call passed the flag true, lastraised that the capture of
\* the latest attempt raised, valid that some decoder call reported a sector.
AttemptStart ==
    [caps |-> 0, late |-> FALSE, first |-> "none", refined |-> FALSE,
     lastraised |-> FALSE, valid |-> FALSE]

NoteCapture(s, c, raised) ==
    IF s.detail # "decode" THEN s
    ELSE [s EXCEPT !.attempts.caps = @ + 1,
                   !.attempts.late = @ \/ (c.n = c.s.sectors),
                   !.attempts.lastraised = raised]

NoteDecode(s, flag, n) ==
    IF s.detail # "decode" THEN s
    ELSE [s EXCEPT !.attempts.first =
                       IF @ = "none" THEN (IF flag THEN "true" ELSE "false") ELSE @,
                   !.attempts.refined = @ \/ (s.attempts.first # "none" /\ flag),
                   !.attempts.valid = @ \/ (n > 0)]

\* one pass of "for i in range(5)" of _mfm_readinto on a loop state
\* c = [s, n, exc, done]; done tells that the loop was left by break
\* (variant: the loop is not left when every sector is valid)
mfm_attempt_mut(c, slot, i) ==
    UNION {
        IF f.exc # NoExc
        THEN {[s |-> NoteCapture([f EXCEPT !.exc = NoExc], c, TRUE),
               n |-> c.n, exc |-> f.exc, done |-> FALSE]}
        ELSE {[s |-> NoteDecode(d.s, i = 0, d.n),
               n |-> d.n, exc |-> c.exc, done |-> FALSE]
                : d \in mfm_decode(NoteCapture(f, c, FALSE), slot, i = 0)}
        : f \in flux_readinto(c.s) }
mfm_attempt(c, slot, i) ==
    IF c.done THEN {c}
    ELSE UNION {
        IF f.exc # NoExc
        THEN {[s |-> NoteCapture([f EXCEPT !.exc = NoExc], c, TRUE),
               n |-> c.n, exc |-> f.exc, done |-> FALSE]}
        ELSE {[s |-> NoteDecode(d.s, i = 0, d.n),
               n |-> d.n, exc |-> c.exc, done |-> d.n = c.s.sectors]
                : d \in mfm_decode(NoteCapture(f, c, FALSE), slot, i = 0)}
        : f \in flux_readinto(c.s) }

RECURSIVE mfm_passes(_, _, _)
mfm_passes(C, slot, i) ==
    IF i = ReadTries THEN C
    ELSE mfm_passes(UNION {mfm_attempt(c, slot, i) : c \in C}, slot, i + 1)

mfm_readinto(s, slot) ==
    { IF c.n = 0 /\ c.exc # NoExc THEN Raise(c.s, c.exc) ELSE c.s
        : c \in mfm_passes({[s |-> [s EXCEPT !.attempts = AttemptStart, !.fresh = {}],
                             n |-> 0, exc |-> NoExc, done |-> FALSE]},
                           slot, 0) }

track_read(s, slot, t, sd) ==
    Bind(select_and_spin([s EXCEPT !.reads = Append(@, <<slot, t, sd>>)], TRUE),
    LAMBDA s1 : Bind({track_set(s1, t)},
    LAMBDA s2 : Bind(mfm_readinto(side_set(s2, sd), slot),
    LAMBDA s3 : Bind(select_and_spin(s3, FALSE),
    LAMBDA s4 : {[s4 EXCEPT !.cached_track = t, !.cached_side = sd]}))))

on_disk_change(s) ==
    Bind(track_read(s, "t0", 0, 0),
    LAMBDA s1 : {[s1 EXCEPT !.cached_track = -1, !.cached_side = -1]})

setformat(s, heads, sectors, tracks, t1_nom_ns) ==
    LET s1 == [s EXCEPT !.heads = heads, !.sectors = sectors,
                        !.tracks = tracks, !.t1_nom_ns = t1_nom_ns]
    IN on_disk_change(WithSlot(WithSlot(s1, "t0", s1.track0side0_cache, {}),
                               "gen", s1.track_cache, {}))

sync(s) == s

\* (variant: the write is accepted and dropped)
writeblocks_mut(s, start, buf) == s
writeblocks(s, start, buf) == Raise(s, ReadOnly)

count(s) == s.heads * s.sectors * s.tracks

\* (variant: no reserved slot, every track goes through the general slot)
get_track_data_mut(s, t, sd) ==
    IF t # s.cached_track \/ sd # s.cached_side
    THEN {[s |-> r, slot |-> "gen"] : r \in track_read(s, "gen", t, sd)}
    ELSE {[s |-> s, slot |-> "gen"]}

get_track_data(s, t, sd) ==
    IF t = 0 /\ sd = 0 THEN {[s |-> s, slot |-> "t0"]}
    ELSE IF t # s.cached_track \/ sd # s.cached_side
         THEN {[s |-> r, slot |-> "gen"] : r \in track_read(s, "gen", t, sd)}
         ELSE {[s |-> s, slot |-> "gen"]}

\* the track, side and sector _readblock computes for a block
block_track(heads, sectors, block) == block \div (heads * sectors)
\* (variant: the remainder by heads * sectors is not taken first)
block_side_mut(heads, sectors, block) == block \div sectors
block_side(heads, sectors, block) == (block % (heads * sectors)) \div sectors
block_sector(heads, sectors, block) == (block % (heads * sectors)) % sectors

past_end(s, block) == block > count(s)

readblock(s, block) ==
    IF past_end(s, block) THEN {Raise(s, OutOfRange)}
    ELSE LET t == block_track(s.heads, s.sectors, block)
             sd == block_side(s.heads, s.sectors, block)
             sec == block_sector(s.heads, s.sectors, block)
         IN { IF g.s.exc # NoExc THEN g.s
              ELSE IF sec \notin SlotValid(g.s, g.slot) THEN Raise(g.s, SectorRead)
              ELSE [g.s EXCEPT !.served = Append(@, [chs |-> <<t, sd, sec>>,
                                                     slot |-> g.slot])]
              : g \in get_track_data([s EXCEPT !.chs = Append(@, <<t, sd, sec>>)],
                                     t, sd) }

RECURSIVE readblocks_from(_, _, _, _)
readblocks_from(R, start_block, i, nblocks) ==
    IF i = nblocks THEN R
    ELSE readblocks_from(Bind(R, LAMBDA s : readblock(s, start_block + i)),
                         start_block, i + 1, nblocks)

readblocks(s, start_block, nblocks) == readblocks_from({s}, start_block, 0, nblocks)

\* the local variable diskformat of autodetect
Unbound == [kind |-> "unbound"]
NoFormat == [kind |-> "None"]

\* the checks of _detect_diskformat_from_flux on a decoded first sector b
signature_ok(b) == ~(b.b510 # 85 \/ b.b511 # 170)
\* (variant: any head count is accepted)
heads_ok_mut(b) == TRUE
heads_ok(b) == ~(b.n_heads # 2)

derived_tracks(b) ==
    LET n_tracks == b.n_sectors_total \div (b.n_heads * b.n_sectors_track)
        f_tracks == b.n_sectors_total % (b.n_heads * b.n_sectors_track)
    IN IF f_tracks # 0 THEN n_tracks + 1 ELSE n_tracks

\* The medium in the drive, as far as detection sees it: boot is what its
\* first sector decodes to, rates the hypotheses (indices of T1Hypotheses)
\* under which a capture of it can decode.
Medium(boot, rates) == [boot |-> boot, rates |-> rates]

\* one timing hypothesis on a detection state c = [s, fmt]: either nothing
\* decodes (n = 0) or the first sector decodes, into the first 512 bytes of
\* track_cache
try_hypothesis(c, h, medium) ==
    IF c.fmt # NoFormat \/ c.s.exc # NoExc THEN {c}
    ELSE LET s1 == [c.s EXCEPT !.ndecode = Count(c.s, @)]
             s2 == IF 0 \in s1.track_validity
                   THEN [s1 EXCEPT !.track_cache[0] = Tag(s1)] ELSE s1
             found == IF h \in medium.rates THEN {medium.boot} ELSE {}
         IN (IF found = {} \/ "decode" \in s1.faults
             THEN {[s |-> s1, fmt |-> NoFormat]} ELSE {}) \cup
            { IF ~signature_ok(b)
              THEN [s |-> [s2 EXCEPT !.rejected = @ \cup {b}], fmt |-> NoFormat]
              ELSE IF ~heads_ok(b)
              THEN [s |-> [s2 EXCEPT !.rejected = @ \cup {b}], fmt |-> NoFormat]
              ELSE IF b.n_heads * b.n_sectors_track = 0
              THEN [s |-> Raise([s2 EXCEPT !.passed = @ \cup {b}], ZeroDivision),
                    fmt |-> NoFormat]
              ELSE [s |-> [s2 EXCEPT !.passed = @ \cup {b}],
                    fmt |-> [kind |-> "format", heads |-> b.n_heads,
                             sectors |-> b.n_sectors_track,
                             tracks |-> derived_tracks(b),
                             t1_nom_ns |-> T1Hypotheses[h]]]
              : b \in found }

RECURSIVE try_hypotheses(_, _, _)
try_hypotheses(C, h, medium) ==
    IF h > Len(T1Hypotheses) THEN C
    ELSE try_hypotheses(UNION {try_hypothesis(c, h, medium) : c \in C},
                        h + 1, medium)

\* the outcomes [s, fmt] of one call; fmt = NoFormat is Python's None
detect_diskformat_from_flux(s, medium) ==
    try_hypotheses({[s |-> s, fmt |-> NoFormat]}, 1, medium)

\* Observation of the captures of one autodetect, kept when detail =
\* "detect": caps counts them, late tells that one was issued after a call of
\* _detect_diskformat_from_flux had returned a format
NoteDetect(s, c) ==
    IF s.detail # "detect" THEN s
    ELSE [s EXCEPT !.detects.caps = @ + 1,
                   !.detects.late = @ \/ (c.fmt \notin {Unbound, NoFormat})]

\* one pass of "for _ in range(5)" of autodetect on a loop state
\* c = [s, fmt, exc, done]
autodetect_attempt(c, medium) ==
    IF c.done \/ c.s.exc # NoExc THEN {c}
    ELSE UNION {
        IF f.exc # NoExc
        THEN {[s |-> NoteDetect([f EXCEPT !.exc = NoExc], c),
               fmt |-> c.fmt, exc |-> f.exc, done |-> FALSE]}
        ELSE {[s |-> d.s, fmt |-> d.fmt, exc |-> c.exc, done |-> d.fmt # NoFormat]
                : d \in detect_diskformat_from_flux(NoteDetect(f, c), medium)}
        : f \in flux_readinto(c.s) }

RECURSIVE autodetect_passes(_, _, _)
autodetect_passes(C, i, medium) ==
    IF i = ReadTries THEN C
    ELSE autodetect_passes(UNION {autodetect_attempt(c, medium) : c \in C},
                           i + 1, medium)

\* the statements of autodetect after the try/finally
autodetect_finish(c) ==
    IF c.fmt = Unbound THEN {Raise(c.s, UnboundLocal)}
    ELSE IF c.fmt # NoFormat
         THEN setformat(c.s, c.fmt.heads, c.fmt.sectors, c.fmt.tracks,
                        c.fmt.t1_nom_ns)
         ELSE {Raise([c.s EXCEPT !.cause = c.exc], FormatDetection)}

\* the finally clause runs whether or not the loop raised
autodetect_finally(c) ==
    { IF c.s.exc # NoExc THEN [c EXCEPT !.s = Raise(r, c.s.exc)]
      ELSE [c EXCEPT !.s = r]
        : r \in select_and_spin([c.s EXCEPT !.exc = NoExc], FALSE) }

autodetect(s, medium) ==
    Bind(select_and_spin(s, TRUE),
    LAMBDA s1 : Bind({track_set(s1, 1)},
    LAMBDA s2 : Bind({track_set(s2, 0)},
    LAMBDA s3 :
        UNION { UNION { IF d.s.exc # NoExc THEN {d.s} ELSE autodetect_finish(d)
                        : d \in autodetect_finally(c) }
                : c \in autodetect_passes(
                          {[s |-> side_set(s3, 0), fmt |-> Unbound,
                            exc |-> NoExc, done |-> FALSE]}, 0, medium) })))

\* FloppyBlockDevice.__init__ with autodetect=True
init_autodetect(s, keep, medium) ==
    Bind(autodetect([s EXCEPT !.keep_selected_ = keep, !.cached_track = -1,
                              !.cached_side = -1], medium),
    LAMBDA s1 : IF keep THEN spin_set(selected_set(s1, TRUE), TRUE) ELSE {s1})

\* FloppyBlockDevice.__init__ with autodetect=False and a given format
init_setformat(s, keep, heads, sectors, tracks, t1_nom_ns) ==
    Bind(setformat([s EXCEPT !.keep_selected_ = keep, !.cached_track = -1,
                             !.cached_side = -1],
                   heads, sectors, tracks, t1_nom_ns),
    LAMBDA s1 : IF keep THEN spin_set(selected_set(s1, TRUE), TRUE) ELSE {s1})

---------------------------------------------------------------------------
(* State *)

FloppyInit ==
    [track |-> None, select |-> FALSE, motor |-> FALSE, direction |-> 0,
     side |-> TRUE]

ObsInit ==
    [watch |-> FALSE,
     op |-> "start", arg |-> 0, exc |-> NoExc, cause |-> NoExc, pulses |-> <<>>,
     homings |-> 0, nseek |-> 0, nside |-> 0, ncapture |-> 0, ndecode |-> 0,
     unready |-> {}, reads |-> <<>>, chs |-> <<>>, served |-> <<>>,
     nraised |-> 0, rejected |-> {}, passed |-> {}, waited |-> FALSE,
     detail |-> "none", attempts |-> AttemptStart, fresh |-> {},
     detects |-> [caps |-> 0, late |-> FALSE]]

\* the fields of a FloppyBlockDevice; constructed is FALSE until __init__
\* has returned normally
DevInit ==
    [constructed |-> FALSE, keep_selected_ |-> FALSE,
     heads |-> 0, sectors |-> 0, tracks |-> 0, t1_nom_ns |-> 0,
     cached_track |-> -1, cached_side |-> -1,
     track0side0_cache |-> [i \in 0..(MaxSectors - 1) |-> Blank],
     track0side0_validity |-> {},
     track_cache |-> [i \in 0..(MaxSectors - 1) |-> Blank],
     track_validity |-> {}]

Cur == floppy @@ drive @@ dev @@ obs

\* the observations of a call start empty
Begin(name, a) ==
    floppy @@ drive @@ dev
        @@ [ObsInit EXCEPT !.watch = obs.watch, !.detail = obs.detail,
                           !.op = name, !.arg = a]

Part(r, old) == [k \in DOMAIN old |-> r[k]]

Install(r) ==
    /\ floppy' = Part(r, floppy)
    /\ drive' = Part(r, drive)
    /\ dev' = Part(r, dev)
    /\ obs' = Part(r, obs)

\* a constructor that raises leaves no FloppyBlockDevice behind
InstallNew(r) ==
    /\ floppy' = Part(r, floppy)
    /\ drive' = Part(r, drive)
    /\ dev' = IF r.exc = NoExc THEN [Part(r, dev) EXCEPT !.constructed = TRUE]
              ELSE DevInit
    /\ obs' = Part(r, obs)

\* first sectors a capture of track 0 can decode to: byte 510, byte 511,
\* byte 0x1A, byte 0x18 and the 16-bit word at 0x13
BootSector(b510, b511, n_heads, n_sectors_track, n_sectors_total) ==
    [b510 |-> b510, b511 |-> b511, n_heads |-> n_heads,
     n_sectors_track |-> n_sectors_track, n_sectors_total |-> n_sectors_total]

\* first sectors that pass the checks (or divide by zero), one of them with
\* more sectors per track than max_sectors, and first sectors that lack a
\* signature byte or have one head
GoodBootSectors ==
    { BootSector(85, 170, 2, spt, 4) : spt \in 0..(MaxSectors + 1) }
    \cup { BootSector(85, 170, 2, MaxSectors, 5) }
BadBootSectors ==
    { BootSector(0, 170, 2, MaxSectors, 4), BootSector(85, 85, 2, MaxSectors, 4),
      BootSector(85, 170, 1, MaxSectors, 4) }

AllRates == 1..Len(T1Hypotheses)

\* the media tried in format detection: every bad first sector and the
\* standard good one at every data rate, the other good ones at the first
MediaSet ==
    { Medium(b, {h}) : b \in BadBootSectors, h \in AllRates }
    \cup { Medium(BootSector(85, 170, 2, MaxSectors, 4), {h}) : h \in AllRates }
    \cup { Medium(b, {1}) : b \in GoodBootSectors }

\* two of them: a bootable 2-head disk and one without the signature
MediaFew ==
    { Medium(BootSector(85, 170, 2, MaxSectors, 4), {1}),
      Medium(BootSector(0, 170, 2, MaxSectors, 4), {1}) }

\* formats a caller gives to the constructor or to setformat
FormatSet ==
    [heads : {1, 2}, sectors : 1..MaxSectors, tracks : 1..MaxTracks,
     t1_nom_ns : {1000}]

\* two of them
FormatFew ==
    { [heads |-> 2, sectors |-> MaxSectors, tracks |-> MaxTracks, t1_nom_ns |-> 1000],
      [heads |-> 1, sectors |-> 1, tracks |-> MaxTracks, t1_nom_ns |-> 2000] }

\* a single-sided one
FormatOne ==
    { [heads |-> 1, sectors |-> MaxSectors, tracks |-> MaxTracks, t1_nom_ns |-> 1000] }

\* After Floppy.__init__ and before any FloppyBlockDevice, on a mechanism
\* with the head anywhere, the home sensor working or stuck, and one of the
\* sets of faults of Faults; watch tells whether calls are watched in detail.
InitOn(Faults, watch) ==
    /\ floppy = FloppyInit
    /\ \E p \in 0..MaxPhys, st \in BOOLEAN, f \in Faults :
         drive = [phys |-> p, stuck |-> st, faults |-> f, limit |-> MaxPhys]
    /\ dev = DevInit
    /\ obs = [ObsInit EXCEPT !.watch = watch]

\* The same with a mechanism whose head can travel HomeTries cylinders and
\* rests MoveOffSteps short of the innermost one.
InitFar(Faults, watch) ==
    /\ floppy = FloppyInit
    /\ \E st \in BOOLEAN, f \in Faults :
         drive = [phys |-> HomeTries - MoveOffSteps, stuck |-> st, faults |-> f,
                  limit |-> HomeTries]
    /\ dev = DevInit
    /\ obs = [ObsInit EXCEPT !.watch = watch]

---------------------------------------------------------------------------
(* Calls on the Floppy object *)

FloppySeek == \E t \in -1..MaxTarget : Install(track_set(Begin("seek", t), t))

FloppyFindTrack0 == Install(find_track0(Begin("find_track0", 0)))

FloppySpin ==
    \E v \in BOOLEAN :
        \E r \in spin_set(Begin("spin", IF v THEN 1 ELSE 0), v) : Install(r)

FloppySelected ==
    \E v \in BOOLEAN :
        Install(selected_set(Begin("selected", IF v THEN 1 ELSE 0), v))

FloppySide == \E h \in 0..1 : Install(side_set(Begin("side", h), h))

(* Calls on the FloppyBlockDevice object *)

NewAutodetect(Media) ==
    /\ ~dev.constructed
    /\ \E keep \in BOOLEAN, m \in Media :
         \E r \in init_autodetect(Begin("init", IF keep THEN 1 ELSE 0), keep, m) :
            InstallNew(r)

NewSetformat(Formats) ==
    /\ ~dev.constructed
    /\ \E keep \in BOOLEAN, g \in Formats :
         \E r \in init_setformat(Begin("init", IF keep THEN 1 ELSE 0), keep,
                                 g.heads, g.sectors, g.tracks, g.t1_nom_ns) :
            InstallNew(r)

KeepSelected ==
    /\ dev.constructed
    /\ \E v \in BOOLEAN :
         \E r \in keep_selected_set(Begin("keep_selected", IF v THEN 1 ELSE 0), v) :
            Install(r)

OnDiskChange ==
    /\ dev.constructed
    /\ \E r \in on_disk_change(Begin("on_disk_change", 0)) : Install(r)

SetFormat(Formats) ==
    /\ dev.constructed
    /\ \E g \in Formats :
         \E r \in setformat(Begin("setformat", 0), g.heads, g.sectors, g.tracks,
                            g.t1_nom_ns) : Install(r)

Autodetect(Media) ==
    /\ dev.constructed
    /\ \E m \in Media :
         \E r \in autodetect(Begin("autodetect", 0), m) : Install(r)

Sync == dev.constructed /\ Install(sync(Begin("sync", 0)))

WriteBlocks(Starts) ==
    /\ dev.constructed
    /\ \E start \in Starts, buf \in 1..MaxBlocks :
         Install(writeblocks(Begin("writeblocks", start), start, buf))

ReadBlocks(Starts) ==
    /\ dev.constructed
    /\ \E start \in Starts, n \in 1..MaxBlocks :
         \E r \in readblocks(Begin("readblocks", start), start, n) : Install(r)

\* block numbers a caller reads: all of them and two past the end, or only
\* those at the edges of the sides and of the medium
AllBlocks == 0..(count(dev) + 1)
EdgeBlocks == {0, dev.sectors, count(dev) - 1, count(dev), count(dev) + 1}

\* the block device through its life, with its callers driving the select
\* and motor lines as well
Next ==
    \/ FloppySpin
    \/ FloppySelected
    \/ NewAutodetect(MediaFew)
    \/ NewSetformat(FormatFew)
    \/ KeepSelected
    \/ OnDiskChange
    \/ SetFormat(FormatFew)
    \/ Autodetect(MediaFew)
    \/ Sync
    \/ WriteBlocks({0})
    \/ ReadBlocks(EdgeBlocks)

Init == InitOn({{}, {"index"}}, FALSE)

Spec == Init /\ [][Next]_vars

\* reading every block of every format
ReadNext ==
    \/ NewSetformat(FormatSet)
    \/ SetFormat(FormatSet)
    \/ Sync
    \/ WriteBlocks(AllBlocks)
    \/ ReadBlocks(AllBlocks)

InitRead == InitOn({{"decode"}, {"capture"}}, FALSE)

SpecRead == InitRead /\ [][ReadNext]_vars

\* format detection on every medium of MediaSet
DetectNext ==
    \/ NewAutodetect(MediaSet)
    \/ Autodetect(MediaSet)

InitDetect == InitOn({{"capture", "decode"}}, FALSE)

SpecDetect == InitDetect /\ [][DetectNext]_vars

\* the Floppy object alone, driven directly
FloppyNext ==
    \/ FloppySeek
    \/ FloppyFindTrack0
    \/ FloppySpin
    \/ FloppySelected
    \/ FloppySide

InitFloppy == InitOn({{}, {"index"}}, TRUE) \/ InitFar({{}}, TRUE)

SpecFloppy == InitFloppy /\ [][FloppyNext]_vars

\* Two ways of use, each with the retry loop it goes through watched in
\* detail: a caller who gives the format and reads blocks (the loop of
\* _mfm_readinto), and a caller who has the format detected (the loop of
\* autodetect)
DecodeNext ==
    \/ obs.detail = "decode" /\ NewSetformat(FormatOne)
    \/ obs.detail = "decode" /\ OnDiskChange
    \/ obs.detail = "decode" /\ ReadBlocks(EdgeBlocks)
    \/ obs.detail = "detect" /\ NewAutodetect(MediaFew)
    \/ obs.detail = "detect" /\ Autodetect(MediaFew)

InitDecode ==
    /\ floppy = FloppyInit
    /\ \E p \in 0..MaxPhys, st \in BOOLEAN :
         drive = [phys |-> p, stuck |-> st, faults |-> {"capture", "decode"},
                  limit |-> MaxPhys]
    /\ dev = DevInit
    /\ \E d \in {"decode", "detect"} : obs = [ObsInit EXCEPT !.detail = d]

SpecDecode == InitDecode /\ [][DecodeNext]_vars

---------------------------------------------------------------------------
(* Properties *)

Geometry == <<dev.heads, dev.sectors, dev.tracks>>
PerTrack == dev.heads * dev.sectors
BlockOps == {"init", "autodetect", "setformat", "on_disk_change", "readblocks"}

\* C1: every read of a block b >= count() fails with the out-of-range error
\* before any seek, side-select or flux capture is issued.
C1_PastEndRejected ==
    (obs.op = "readblocks" /\ obs.arg >= dev.heads * dev.sectors * dev.tracks)
        => /\ obs.exc = OutOfRange
           /\ obs.nseek = 0 /\ obs.nside = 0 /\ obs.ncapture = 0

\* C2: a block b < count() is served as track b div (heads*sectors), side
\* (b mod (heads*sectors)) div sectors, sector (b mod (heads*sectors)) mod
\* sectors, from the slot holding that track; the map is a bijection from
\* 0..count()-1 onto tracks x heads x sectors with inverse
\* (track*heads + side)*sectors + sector; count() is heads*sectors*tracks.
C2_BlockMap ==
    /\ dev.constructed => count(dev) = dev.heads * dev.sectors * dev.tracks
    /\ obs.op = "readblocks" =>
         \A i \in 1..Len(obs.served) :
            LET b == obs.arg + i - 1
                t == obs.served[i].chs[1]
                sd == obs.served[i].chs[2]
                sec == obs.served[i].chs[3]
            IN b < count(dev) =>
                 /\ t = b \div PerTrack
                 /\ sd = (b % PerTrack) \div dev.sectors
                 /\ sec = (b % PerTrack) % dev.sectors
                 /\ t \in 0..(dev.tracks - 1) /\ sd \in 0..(dev.heads - 1)
                 /\ sec \in 0..(dev.sectors - 1)
                 /\ b = (t * dev.heads + sd) * dev.sectors + sec
                 /\ (obs.served[i].slot = "t0") = (t = 0 /\ sd = 0)
                 /\ (obs.exc = NoExc /\ i = Len(obs.served)
                       /\ obs.served[i].slot = "gen")
                       => dev.cached_track = t /\ dev.cached_side = sd
    /\ dev.constructed =>
         LET chs(b) == <<block_track(dev.heads, dev.sectors, b),
                         block_side(dev.heads, dev.sectors, b),
                         block_sector(dev.heads, dev.sectors, b)>>
             Blocks == 0..(count(dev) - 1)
         IN /\ \A b1, b2 \in Blocks : chs(b1) = chs(b2) => b1 = b2
            /\ { chs(b) : b \in Blocks }
                 = (0..(dev.tracks - 1)) \X (0..(dev.heads - 1))
                                         \X (0..(dev.sectors - 1))
    /\ count([heads |-> 2, sectors |-> 18, tracks |-> 80]) = 2880
    /\ <<block_track(2, 18, 37), block_side(2, 18, 37), block_sector(2, 18, 37)>>
         = <<1, 0, 1>>

\* C2 witness: a block of track 1, side 1, with a sector number above 0, has
\* been served from the general slot (two heads, two or more sectors).
C2_Witness ==
    /\ obs.op = "readblocks" /\ obs.exc = NoExc /\ Len(obs.served) > 0
    /\ obs.served[1] = [chs |-> <<1, 1, 1>>, slot |-> "gen"]

\* C3: a read following a successful read of a block of a track k # 0:
\* a block of (track 0, side 0) is served with no seek, capture or decode and
\* leaves the general slot and its tag as they were; a block of a third track
\* m is served only after a track read into the general slot, which is then
\* tagged (m, side); and a read of the track and side the general slot is
\* tagged with performs no decode.
C3_CacheUse ==
    [][ ( /\ obs.op = "readblocks" /\ obs.exc = NoExc /\ Len(obs.chs) = 1
          /\ obs.chs[1][1] # 0
          /\ obs'.op = "readblocks" /\ Len(obs'.chs) = 1 )
        => LET k == obs.chs[1][1]
               t == obs'.chs[1][1]
               sd == obs'.chs[1][2]
           IN /\ (t = 0 /\ sd = 0) =>
                    /\ obs'.nseek = 0 /\ obs'.ncapture = 0 /\ obs'.ndecode = 0
                    /\ obs'.reads = <<>>
                    /\ dev'.track_cache = dev.track_cache
                    /\ dev'.track_validity = dev.track_validity
                    /\ dev'.cached_track = dev.cached_track
                    /\ dev'.cached_side = dev.cached_side
                    /\ obs'.exc = NoExc => obs'.served[1].slot = "t0"
              /\ (t # k /\ t # 0 /\ obs'.exc = NoExc) =>
                    /\ obs'.reads = << <<"gen", t, sd>> >>
                    /\ obs'.nseek > 0 /\ obs'.ncapture > 0 /\ obs'.ndecode > 0
                    /\ dev'.cached_track = t /\ dev'.cached_side = sd
                    /\ obs'.served[1].slot = "gen"
              /\ (t = dev.cached_track /\ sd = dev.cached_side) =>
                    /\ obs'.ndecode = 0 /\ obs'.reads = <<>>
      ]_vars

\* C3 witness: a block of (track 0, side 0) was served from the reserved slot
\* while the general slot holds a track k # 0 read before.
C3_Witness ==
    /\ obs.op = "readblocks" /\ obs.exc = NoExc /\ Len(obs.served) = 1
    /\ obs.served[1].slot = "t0" /\ obs.reads = <<>>
    /\ dev.cached_track > 0 /\ dev.track_validity # {}

\* C7: writeblocks always fails with the read-only error and sync returns;
\* neither changes the block device, the Floppy object or the drive.
C7_WriteRejected ==
    [][ /\ obs'.op = "writeblocks" =>
            obs'.exc = ReadOnly /\ UNCHANGED <<floppy, drive, dev>>
        /\ obs'.op = "sync" =>
            obs'.exc = NoExc /\ UNCHANGED <<floppy, drive, dev>>
      ]_vars

\* C7 witness: a write at a block above 0 was rejected on a device holding a
\* decoded track in its general slot.
C7_Witness ==
    /\ obs.op = "writeblocks" /\ obs.exc = ReadOnly /\ obs.arg > 0
    /\ dev.cached_track > 0 /\ dev.track_validity # {}

\* the home sensor reads "at home"
AtHome == drive.phys = 0 /\ ~drive.stuck

\* C4: a seek to t that returns without error leaves the position Known(t)
\* with the home sensor reading "at home" exactly if t = 0; a seek that ends
\* with the sensor disagreeing raises the position-lost error.
C4_SeekInPosition ==
    /\ (obs.op = "seek" /\ obs.exc = NoExc)
          => floppy.track = obs.arg /\ (AtHome <=> obs.arg = 0)
    /\ (obs.op = "seek" /\ obs.arg >= 0 /\ floppy.track = obs.arg
          /\ (AtHome # (obs.arg = 0)))
          => obs.exc = PositionLost

\* C4 witness: a seek from Unknown position to a track above 0 has returned.
C4_Witness ==
    /\ obs.op = "seek" /\ obs.exc = NoExc /\ obs.arg > 0 /\ obs.homings > 0
    /\ floppy.track = obs.arg /\ ~AtHome

\* C5: a seek from Known(c), the home sensor agreeing with c, to t >= 0 issues
\* exactly |t - c| step pulses, all with the direction line outward when t < c
\* and inward when t > c, and none when t = c, leaving the position at c.
C5_SeekPulses ==
    [][ ( /\ obs'.op = "seek" /\ obs'.arg >= 0
          /\ floppy.track # None /\ (AtHome <=> floppy.track = 0) )
        => LET c == floppy.track
               t == obs'.arg
           IN /\ t < c => obs'.pulses = <<[dir |-> 1, n |-> c - t]>>
              /\ t > c => obs'.pulses = <<[dir |-> 0, n |-> t - c]>>
              /\ t = c => obs'.pulses = <<>> /\ floppy'.track = c
              /\ obs'.homings = 0
      ]_vars

\* C5 witness: a seek from a Known position has issued two outward pulses.
C5_Witness ==
    /\ obs.op = "seek" /\ obs.exc = NoExc /\ obs.homings = 0
    /\ obs.pulses = <<[dir |-> 1, n |-> 2]>>

\* C6: on a drive whose home sensor never reads "at home", find_track0 issues
\* 4 inward pulses, then 250 outward pulses, then fails with the
\* track-0-not-found error, and the position is Unknown.
C6_HomingFails ==
    (obs.op = "find_track0" /\ drive.stuck)
        => /\ obs.exc = Track0NotFound
           /\ obs.pulses = <<[dir |-> 0, n |-> 4], [dir |-> 1, n |-> 250]>>
           /\ floppy.track = None

\* C6 witness: find_track0 has failed on such a drive.
C6_Witness ==
    /\ obs.op = "find_track0" /\ drive.stuck /\ obs.exc = Track0NotFound
    /\ Len(obs.pulses) = 2

\* every first sector that passed the checks of format detection has 0x55 at
\* 510, 0xAA at 511 and a head count of 2
C8_NoBadSectorPasses ==
    \A b \in obs.passed : b.b510 = 85 /\ b.b511 = 170 /\ b.n_heads = 2

\* a successful autodetect leaves heads = 2, taken from a sector that passed
C8_AfterAutodetect ==
    (obs.op \in {"autodetect", "init"} /\ obs.exc = NoExc)
        => /\ dev.heads = 2
           /\ \E b \in obs.passed : /\ dev.heads = b.n_heads
                                    /\ dev.sectors = b.n_sectors_track

\* an autodetect changes the geometry only to that of a sector that passed
C8_InstallsFromPassed ==
    (obs'.op \in {"autodetect", "init"} /\ Geometry' # Geometry)
        => \E b \in obs'.passed :
              /\ b.b510 = 85 /\ b.b511 = 170 /\ b.n_heads = 2
              /\ dev'.heads = b.n_heads /\ dev'.sectors = b.n_sectors_track

\* C8: no first sector lacking 0x55 at 510 or 0xAA at 511, or with a head
\* count other than 2, passes the checks of format detection, for any capture
\* and timing hypothesis; autodetect installs a geometry only from a sector
\* that passed; heads = 2 after every successful autodetect.
C8_DetectRejects ==
    /\ []C8_NoBadSectorPasses
    /\ []C8_AfterAutodetect
    /\ [][C8_InstallsFromPassed]_vars

\* C8 witness: an autodetect has decoded and rejected a first sector that
\* has the signature and one head, and failed.
C8_Witness ==
    /\ obs.op = "autodetect" /\ obs.exc = FormatDetection
    /\ \E b \in obs.rejected : b.b510 = 85 /\ b.b511 = 170 /\ b.n_heads = 1

\* C9: an autodetect that went through its captures without any first sector
\* passing the checks fails with the format-detection error, whose cause is
\* the last capture error if one occurred.
C9_DetectionError ==
    (obs.op = "autodetect" /\ obs.ncapture > 0 /\ obs.passed = {})
        => /\ obs.exc = FormatDetection
           /\ obs.cause = IF obs.nraised > 0 THEN CaptureError ELSE NoExc

\* C10: every seek, side-select and flux capture issued by the block device
\* happens while the drive is selected and its motor line is on.
C10_DriveReady ==
    obs.op \in BlockOps => obs.unready = {}

\* the recorded position is Known and the home sensor contradicts it
Lost == floppy.track # None /\ (AtHome # (floppy.track = 0))

\* C12 as stated: once a seek has failed with the position-lost error the
\* position stays Known and contradicted until find_track0 is run, and every
\* later seek, whatever its target, fails with the position-lost error
\* without a step pulse.
C12_EverySeekLost ==
    /\ []((obs.op = "seek" /\ obs.exc = PositionLost) => Lost)
    /\ [][ (Lost /\ obs'.op # "find_track0") => Lost' ]_vars
    /\ [][ (Lost /\ obs'.op = "seek")
             => obs'.exc = PositionLost /\ obs'.pulses = <<>> ]_vars

\* C12: once a seek has failed with the position-lost error the position
\* stays Known and contradicted by the sensor until find_track0 is run; until
\* then every seek to a target t >= 0 fails with the position-lost error, a
\* seek to a negative target fails with the invalid-seek error, and none of
\* them issues a step pulse or runs homing.
C12_NoRecovery ==
    /\ []((obs.op = "seek" /\ obs.exc = PositionLost) => Lost)
    /\ [][ (Lost /\ obs'.op # "find_track0")
             => Lost' /\ floppy'.track = floppy.track ]_vars
    /\ [][ (Lost /\ obs'.op = "seek")
             => /\ obs'.exc = IF obs'.arg >= 0 THEN PositionLost ELSE InvalidSeek
                /\ obs'.pulses = <<>> /\ obs'.homings = 0
                /\ drive'.phys = drive.phys ]_vars

\* C12 witness: a seek to a target other than the recorded position has
\* failed with the position-lost error without moving the head.
C12_Witness ==
    /\ obs.op = "seek" /\ obs.exc = PositionLost /\ obs.pulses = <<>>
    /\ obs.arg >= 0 /\ obs.arg # floppy.track /\ Lost

\* C14: on a drive whose sensor first reads "at home" after k outward pulses
\* following the 4 inward ones, 0 <= k <= 250, find_track0 issues exactly k
\* outward pulses, returns, and the position is Known(0); it fails only on a
\* drive whose sensor is still not "at home" after the 250th outward pulse.
C14_HomingBudget ==
    [][ (obs'.op = "find_track0" /\ ~drive.stuck)
        => LET k == Min(drive.phys + 4, drive.limit)
               moved == <<[dir |-> 0, n |-> 4]>>
                        \o (IF k > 0 THEN <<[dir |-> 1, n |-> k]>> ELSE <<>>)
           IN /\ k <= 250 => /\ obs'.exc = NoExc
                             /\ floppy'.track = 0
                             /\ obs'.pulses = moved
              /\ obs'.exc # NoExc => k > 250
      ]_vars

\* C19: a seek to a negative target fails with the invalid-seek error, issues
\* no step pulse, runs no homing and leaves the recorded position and the
\* direction line as they were, from every state.
C19_NegativeSeek ==
    [][ (obs'.op = "seek" /\ obs'.arg < 0)
        => /\ obs'.exc = InvalidSeek
           /\ obs'.pulses = <<>> /\ obs'.homings = 0
           /\ floppy'.track = floppy.track
           /\ floppy'.direction = floppy.direction
           /\ drive'.phys = drive.phys
      ]_vars

\* C20: after a spin-up that failed with the index-pulse timeout the drive
\* does not report spin = True, and a spin = True that follows it does not
\* return without having waited for an index pulse.
C20_SpinUp ==
    /\ []((obs.op = "spin" /\ obs.exc = IndexTimeout) => ~spin(floppy))
    /\ [][ ( /\ obs.op = "spin" /\ obs.exc = IndexTimeout
             /\ obs'.op = "spin" /\ obs'.arg = 1 /\ obs'.exc = NoExc )
           => obs'.waited ]_vars

\* the operations of the block device that follow its keep_selected policy
PolicyOps == {"readblocks", "on_disk_change", "setformat", "autodetect"}

\* C13: after keep_selected is assigned v, reading it returns v; when v is
\* true the operation of the block device that follows leaves the drive
\* selected and the motor on, and when v is false that operation selects and
\* spins the drive itself before every seek, side-select and capture.
C13_KeepSelectedPolicy ==
    /\ []((obs.op = "keep_selected" /\ obs.exc = NoExc)
            => keep_selected(dev) = (obs.arg = 1))
    /\ [][ ( /\ obs.op = "keep_selected" /\ obs.exc = NoExc /\ obs.arg = 1
             /\ obs'.op \in PolicyOps )
           => selected(floppy') /\ spin(floppy') ]_vars
    /\ [][ ( /\ obs.op = "keep_selected" /\ obs.exc = NoExc /\ obs.arg = 0
             /\ obs'.op \in PolicyOps )
           => obs'.unready = {} ]_vars

\* the track decode of the call is watched and has issued a capture
Decoded == obs.detail = "decode" /\ obs.attempts.caps > 0

\* C11: after on_disk_change (alone, through setformat or through the
\* constructor) has returned, the tag of the general slot is (-1, -1) and
\* every valid sector of the reserved slot was decoded by that call; the read
\* of a block of another (track, side) that follows seeks, reads the track
\* into the general slot and serves a sector decoded by that read.
C11_DiskChangeFresh ==
    /\ []( ( /\ obs.detail = "decode" /\ obs.exc = NoExc
             /\ obs.op \in {"on_disk_change", "setformat", "init"} )
           => /\ dev.cached_track = -1 /\ dev.cached_side = -1
              /\ dev.track0side0_validity \subseteq obs.fresh )
    /\ [][ ( /\ obs.detail = "decode" /\ obs.exc = NoExc
             /\ obs.op \in {"on_disk_change", "setformat", "init"}
             /\ obs'.op = "readblocks" /\ Len(obs'.chs) = 1
             /\ <<obs'.chs[1][1], obs'.chs[1][2]>> # <<0, 0>> )
           => /\ obs'.nseek > 0
              /\ obs'.reads = << <<"gen", obs'.chs[1][1], obs'.chs[1][2]>> >>
              /\ obs'.attempts.caps > 0
              /\ obs'.exc = NoExc => obs'.chs[1][3] \in obs'.fresh ]_vars

\* C15: a track decode issues at most 5 flux captures and none after a
\* decoder call that reported every sector of the track; an autodetect issues
\* at most 5 flux captures in its detection loop and none after a capture for
\* which a hypothesis passed.
C15_RetryBudget ==
    /\ obs.attempts.caps <= 5 /\ ~obs.attempts.late
    /\ obs.detects.caps <= 5 /\ ~obs.detects.late

\* C15 witness: a track decode has stopped after its third capture, all
\* sectors valid, the first capture having raised.
C15_Witness ==
    /\ obs.op = "readblocks" /\ obs.exc = NoExc
    /\ obs.attempts.caps = 3 /\ obs.attempts.first = "false"

\* C16: a track decode raises the capture error exactly when none of its
\* decoder calls reported a valid sector and the capture of its last attempt
\* raised; otherwise it returns and the slot is tagged with the track and
\* side read.
C16_CaptureErrorSurfaced ==
    Decoded =>
        /\ (obs.exc = CaptureError)
              <=> (~obs.attempts.valid /\ obs.attempts.lastraised)
        /\ ( /\ obs.op = "readblocks" /\ obs.exc \in {NoExc, SectorRead}
             /\ obs.reads[Len(obs.reads)][1] = "gen" )
           => /\ dev.cached_track = obs.reads[Len(obs.reads)][2]
              /\ dev.cached_side = obs.reads[Len(obs.reads)][3]

\* C17: the first decoder call of a track decode passes the reset flag true
\* and every later one passes it false, so every valid sector of the general
\* slot was decoded from the track and side the slot is tagged with.
C17_ResetFlag ==
    obs.detail = "decode" =>
        /\ obs.attempts.first # "false" /\ ~obs.attempts.refined
        /\ dev.cached_track # -1 =>
             \A i \in dev.track_validity :
                dev.track_cache[i] = <<dev.cached_track, dev.cached_side>>

\* the track count ceil(total / (heads * sectors)) of a first sector
CeilTracks(b) ==
    (b.n_sectors_total + b.n_heads * b.n_sectors_track - 1)
        \div (b.n_heads * b.n_sectors_track)

\* C18: the geometry of a constructed block device has 1 <= sectors <=
\* max_sectors, heads = 2 and tracks >= 1; autodetect does not crash on a
\* first sector, and the track count it installs is
\* ceil(total_sectors / (heads * sectors_per_track)).
C18_GeometryInvariant ==
    /\ dev.constructed
         => /\ 1 <= dev.sectors /\ dev.sectors <= MaxSectors
            /\ dev.heads = 2 /\ dev.tracks >= 1
    /\ obs.op \in {"init", "autodetect"} => obs.exc # ZeroDivision
    /\ (obs.op \in {"init", "autodetect"} /\ obs.exc = NoExc)
         => \E b \in obs.passed :
               /\ dev.sectors = b.n_sectors_track
               /\ dev.tracks = CeilTracks(b)

\* the call has gone through _select_and_spin(True): autodetect always does,
\* the others when they read a track
Engaged == obs.op = "autodetect" \/ obs.reads # <<>>

\* C21: with keep_selected false, an operation of the block device that
\* selected and spun the drive leaves it deselected with the motor off when
\* it ends, whether it returns or raises.
C21_ReleasedAtEnd ==
    (obs.op \in PolicyOps /\ ~keep_selected(dev) /\ Engaged)
        => ~selected(floppy) /\ ~spin(floppy)

\* the tag of the general slot names a track and side, not the sentinel
TagReal == dev.cached_track # -1 \/ dev.cached_side # -1

\* C22: while the tag of the general slot is a real (track, side), every
\* valid sector of the slot was decoded from that track and side; the call of
\* on_disk_change, setformat or autodetect, however it ends, leaves the tag at
\* the sentinel, so what is tagged was decoded after it; and no call changes
\* the data or validity of the slot or the geometry while it leaves a real
\* tag as it was.
C22_CacheCoherence ==
    /\ [](TagReal => \A i \in dev.track_validity :
                        dev.track_cache[i] = <<dev.cached_track, dev.cached_side>>)
    /\ [](obs.op \in {"on_disk_change", "setformat", "autodetect"} => ~TagReal)
    /\ [][ ( /\ TagReal
             /\ dev'.cached_track = dev.cached_track
             /\ dev'.cached_side = dev.cached_side )
           => /\ dev'.track_cache = dev.track_cache
              /\ dev'.track_validity = dev.track_validity
              /\ Geometry' = Geometry ]_vars

====
